---- MODULE Spec2Model ----
(***************************************************************************)
(* Model of the agent session engine of mbf-agent-wrapper.py:              *)
(* Wrapper.send_payload (the spawn / write / select / read1 loop), the     *)
(* decoding of stdout chunks (bytes.splitlines, bytes.decode('utf8'),      *)
(* json.loads), Wrapper.parse_response, Wrapper.log and the interactive    *)
(* loop that runs several commands, hence several sessions, in a row       *)
(* (Spec), and the command import_url, which runs one session per url and  *)
(* reads the recorded result after each (SpecImport).                      *)
(*                                                                         *)
(* A byte is a one-character string for ASCII ("{", "\"", "\n", ...) and   *)
(* "xHH" for a byte >= 0x80.  A decoded character is the same string for   *)
(* ASCII and "U+HH" for a code point >= 0x80.                              *)
(***************************************************************************)
EXTENDS Integers, Sequences, FiniteSets, TLC

\* ------------------------------------------------------------------------
\* Log levels (module constants of the program)
\* ------------------------------------------------------------------------
TRACE == 4
DEBUG == 3
INFO == 2
WARN == 1
ERROR == 0

\* ------------------------------------------------------------------------
\* Sequence helpers
\* ------------------------------------------------------------------------
Drop(s, n) == SubSeq(s, n + 1, Len(s))

Take(s, n) == SubSeq(s, 1, n)

\* ------------------------------------------------------------------------
\* bytes.splitlines(): split at "\n", "\r" and "\r\n", line ends dropped,
\* no empty last line after a trailing line end.
\* ------------------------------------------------------------------------
LineEnds == {"\n", "\r"}

Min(S) == CHOOSE x \in S : \A y \in S : x <= y

\* the last byte of each line end: a "\n", or a "\r" with no "\n" after it
BreakEnds(b) ==
    {i \in 1..Len(b) :
        \/ b[i] = "\n"
        \/ b[i] = "\r" /\ ~(i < Len(b) /\ b[i + 1] = "\n")}

\* the first byte of the line end whose last byte is at e
BreakStart(b, e) ==
    IF b[e] = "\n" /\ e > 1 /\ b[e - 1] = "\r" THEN e - 1 ELSE e

\* the k-th smallest element of a set of numbers
Nth(S, k) == CHOOSE e \in S : Cardinality({f \in S : f < e}) = k - 1

\* the lines of b, given the set ends of its line ends
Lines(b, ends) ==
    [k \in 1..(IF ends = {} \/ Nth(ends, Cardinality(ends)) < Len(b)
               THEN Cardinality(ends) + 1 ELSE Cardinality(ends)) |->
        SubSeq(b,
               IF k = 1 THEN 1 ELSE Nth(ends, k - 1) + 1,
               IF k <= Cardinality(ends)
               THEN BreakStart(b, Nth(ends, k)) - 1 ELSE Len(b))]

\* the chunk is taken as one line, line boundaries kept
splitlines_Unsplit(b) == IF b = <<>> THEN <<>> ELSE <<b>>

splitlines(b) == IF b = <<>> THEN <<>> ELSE Lines(b, BreakEnds(b))

\* ------------------------------------------------------------------------
\* bytes.decode('utf8') (strict).  The byte alphabet of the model has one
\* two-byte character, U+00E9 = C3 A9.
\* ------------------------------------------------------------------------
Lead2 == {"xC3"}

Cont == {"xA9"}

CodePoint(lead, cont) == "U+E9"

\* a lead byte with no continuation byte after it, or a continuation byte
\* that follows no lead byte
ValidUtf8(b) ==
    \A i \in 1..Len(b) :
        /\ b[i] \in Lead2 => i < Len(b) /\ b[i + 1] \in Cont
        /\ b[i] \in Cont => i > 1 /\ b[i - 1] \in Lead2

\* the characters of valid UTF-8 bytes
Chars(b) ==
    SelectSeq([i \in 1..Len(b) |->
                  IF b[i] \in Lead2 THEN CodePoint(b[i], b[i + 1]) ELSE b[i]],
              LAMBDA c : c \notin Cont)

\* ok = FALSE is UnicodeDecodeError
decode_utf8(b) ==
    IF ValidUtf8(b) THEN [ok |-> TRUE, s |-> Chars(b)]
    ELSE [ok |-> FALSE, s |-> <<>>]

\* ------------------------------------------------------------------------
\* Decoded JSON values
\* ------------------------------------------------------------------------
JStr(s) == [t |-> "str", s |-> s]

JBool(v) == [t |-> "bool", b |-> v]

JNull == [t |-> "null"]

\* a dict is a sequence of <<key, value>> pairs, keys unique, insertion order
JObj(m) == [t |-> "obj", m |-> m]

DictHas(m, k) == \E i \in 1..Len(m) : m[i][1] = k

DictGet(m, k) == m[CHOOSE i \in 1..Len(m) : m[i][1] = k][2]

DictSet(m, k, v) ==
    IF DictHas(m, k)
    THEN [i \in 1..Len(m) |-> IF m[i][1] = k THEN <<k, v>> ELSE m[i]]
    ELSE Append(m, <<k, v>>)

DictDel(m, k) == SelectSeq(m, LAMBDA p : p[1] # k)

\* ------------------------------------------------------------------------
\* json.loads on a str: the part of the JSON grammar over objects, strings
\* without escapes, true, false and null.  A scan result is
\*   [st |-> "ok", val, pos]   a value ends before position pos
\*   [st |-> "eof"]            the text ended inside a value
\*   [st |-> "bad"]            a character that cannot continue a value
\* json.loads raises JSONDecodeError for "eof" and for "bad" alike.
\* ------------------------------------------------------------------------
Whitespace == {" ", "\t", "\n", "\r"}

ControlChars == {"\t", "\n", "\r"}

Eof == [st |-> "eof"]

Bad == [st |-> "bad"]

Ok(v, p) == [st |-> "ok", val |-> v, pos |-> p]

\* the first position from i on that holds no whitespace
NonWs(s, i) == {j \in i..Len(s) : s[j] \notin Whitespace}

SkipWs(s, i) ==
    IF i > Len(s) THEN i
    ELSE IF s[i] \notin Whitespace THEN i
    ELSE IF NonWs(s, i) = {} THEN Len(s) + 1
    ELSE Min(NonWs(s, i))

\* py_scanstring, strict: i is the position after the opening quote; the
\* string ends at the next quote, and no control character may come first
IsStop(c) == c = "\"" \/ c \in ControlChars

\* the first position from i on that holds a quote or a control character,
\* Len(s) + 1 if there is none
FirstStop(s, i) ==
    CHOOSE j \in i..(Len(s) + 1) :
        /\ j = Len(s) + 1 \/ IsStop(s[j])
        /\ \A k \in i..(j - 1) : ~IsStop(s[k])

StringEndingAt(s, i, j) ==
    IF j > Len(s) THEN Eof
    ELSE IF s[j] = "\"" THEN Ok(SubSeq(s, i, j - 1), j + 1)
    ELSE Bad

ScanString(s, i) == StringEndingAt(s, i, FirstStop(s, i))

\* a literal such as true: lit is its characters, have is how many of them
\* the text has room for
LiteralOf(s, i, lit, v, have) ==
    IF SubSeq(s, i, i + have - 1) # Take(lit, have) THEN Bad
    ELSE IF have < Len(lit) THEN Eof
    ELSE Ok(v, i + Len(lit))

ScanLiteral(s, i, lit, v) ==
    LiteralOf(s, i, lit, v,
              IF i + Len(lit) - 1 <= Len(s) THEN Len(lit) ELSE Len(s) - i + 1)

RECURSIVE ScanOnce(_, _)
RECURSIVE ScanMembers(_, _, _)

\* JSONObject, after a member's value v: e is the next position that holds
\* no whitespace, m the members so far with this one
AfterValue(s, m, e) ==
    IF e > Len(s) THEN Eof
    ELSE IF s[e] = "}" THEN Ok(JObj(m), e + 1)
    ELSE IF s[e] # "," THEN Bad
    ELSE IF SkipWs(s, e + 1) > Len(s) THEN Eof
    ELSE IF s[SkipWs(s, e + 1)] # "\"" THEN Bad
    ELSE ScanMembers(s, SkipWs(s, e + 1), m)

\* JSONObject, a member's value v has been scanned
WithValue(s, m, key, v) ==
    IF v.st # "ok" THEN v
    ELSE AfterValue(s, DictSet(m, key, v.val), SkipWs(s, v.pos))

\* JSONObject, after a member's name: c is the next position that holds
\* no whitespace
AfterName(s, m, key, c) ==
    IF c > Len(s) THEN Eof
    ELSE IF s[c] # ":" THEN Bad
    ELSE WithValue(s, m, key, ScanOnce(s, SkipWs(s, c + 1)))

\* JSONObject, a member's name has been scanned
WithName(s, m, key) ==
    IF key.st # "ok" THEN key
    ELSE AfterName(s, m, key.val, SkipWs(s, key.pos))

\* JSONObject: i is the position of a property name's opening quote
ScanMembers(s, i, m) == WithName(s, m, ScanString(s, i + 1))

\* JSONObject: n is the first position after "{" that holds no whitespace
ScanObject(s, n) ==
    IF n > Len(s) THEN Eof
    ELSE IF s[n] = "}" THEN Ok(JObj(<<>>), n + 1)
    ELSE IF s[n] # "\"" THEN Bad
    ELSE ScanMembers(s, n, <<>>)

AsString(r) == IF r.st = "ok" THEN Ok(JStr(r.val), r.pos) ELSE r

\* scanner.py_make_scanner._scan_once
ScanOnce(s, i) ==
    IF i > Len(s) THEN Eof
    ELSE IF s[i] = "\"" THEN AsString(ScanString(s, i + 1))
    ELSE IF s[i] = "{" THEN ScanObject(s, SkipWs(s, i + 1))
    ELSE IF s[i] = "t" THEN
        ScanLiteral(s, i, <<"t", "r", "u", "e">>, JBool(TRUE))
    ELSE IF s[i] = "f" THEN
        ScanLiteral(s, i, <<"f", "a", "l", "s", "e">>, JBool(FALSE))
    ELSE IF s[i] = "n" THEN ScanLiteral(s, i, <<"n", "u", "l", "l">>, JNull)
    ELSE Bad

\* JSONDecoder.decode: one value r, then only whitespace up to the end
WholeText(s, r) ==
    IF r.st # "ok" THEN r
    ELSE IF SkipWs(s, r.pos) <= Len(s) THEN Bad ELSE r

Scan(s) == WholeText(s, ScanOnce(s, SkipWs(s, 1)))

Loaded(r) ==
    IF r.st = "ok" THEN [ok |-> TRUE, val |-> r.val]
    ELSE [ok |-> FALSE, val |-> JNull]

\* ok = FALSE is json.decoder.JSONDecodeError
json_loads(s) == Loaded(Scan(s))

\* ------------------------------------------------------------------------
\* Strings of the program, as character sequences
\* ------------------------------------------------------------------------
S_type ==
    <<"t", "y", "p", "e">>

S_LogMsg ==
    <<"L", "o", "g", "M", "s", "g">>

S_message ==
    <<"m", "e", "s", "s", "a", "g", "e">>

S_level ==
    <<"l", "e", "v", "e", "l">>

S_trace ==
    <<"t", "r", "a", "c", "e">>

S_debug ==
    <<"d", "e", "b", "u", "g">>

S_info ==
    <<"i", "n", "f", "o">>

S_warn ==
    <<"w", "a", "r", "n">>

S_error ==
    <<"e", "r", "r", "o", "r">>

S_ModStatus ==
    <<"M", "o", "d", "S", "t", "a", "t", "u", "s">>

S_Mods ==
    <<"M", "o", "d", "s">>

S_ModSyncResult ==
    <<"M", "o", "d", "S", "y", "n", "c", "R", "e", "s", "u", "l", "t">>

S_Patched ==
    <<"P", "a", "t", "c", "h", "e", "d">>

S_ImportResult ==
    <<"I", "m", "p", "o", "r", "t", "R", "e", "s", "u", "l", "t">>

S_FixedPlayerData ==
    <<"F", "i", "x", "e", "d", "P", "l", "a", "y", "e", "r", "D", "a", "t",
      "a">>

S_DowngradedManifest ==
    <<"D", "o", "w", "n", "g", "r", "a", "d", "e", "d", "M", "a", "n", "i",
      "f", "e", "s", "t">>

S_installed_mods ==
    <<"i", "n", "s", "t", "a", "l", "l", "e", "d", "_", "m", "o", "d", "s">>

S_core_mods ==
    <<"c", "o", "r", "e", "_", "m", "o", "d", "s">>

S_app_info ==
    <<"a", "p", "p", "_", "i", "n", "f", "o">>

S_failures ==
    <<"f", "a", "i", "l", "u", "r", "e", "s">>

S_did_remove_dlc ==
    <<"d", "i", "d", "_", "r", "e", "m", "o", "v", "e", "_", "d", "l", "c">>

S_result ==
    <<"r", "e", "s", "u", "l", "t">>

S_existed ==
    <<"e", "x", "i", "s", "t", "e", "d">>

S_manifest_xml ==
    <<"m", "a", "n", "i", "f", "e", "s", "t", "_", "x", "m", "l">>

S_ImportedMod ==
    <<"I", "m", "p", "o", "r", "t", "e", "d", "M", "o", "d">>

S_ImportedFileCopy ==
    <<"I", "m", "p", "o", "r", "t", "e", "d", "F", "i", "l", "e", "C", "o",
      "p", "y">>

S_imported_id ==
    <<"i", "m", "p", "o", "r", "t", "e", "d", "_", "i", "d">>

S_copied_to ==
    <<"c", "o", "p", "i", "e", "d", "_", "t", "o">>

S_mod_id ==
    <<"m", "o", "d", "_", "i", "d">>

\* str.lower() on the characters of the model's alphabet
UpperToLower ==
    [c \in {"D", "E", "F", "I", "L", "M", "P", "R", "S", "W"} |->
        CASE c = "D" -> "d" [] c = "E" -> "e" [] c = "F" -> "f"
          [] c = "I" -> "i" [] c = "L" -> "l" [] c = "M" -> "m"
          [] c = "P" -> "p" [] c = "R" -> "r" [] c = "S" -> "s"
          [] c = "W" -> "w"]

lower(s) ==
    [i \in 1..Len(s) |->
        IF s[i] \in DOMAIN UpperToLower THEN UpperToLower[s[i]] ELSE s[i]]

LEVEL_CONVERTER ==
    <<<<S_trace, TRACE>>, <<S_debug, DEBUG>>, <<S_info, INFO>>,
      <<S_warn, WARN>>, <<S_error, ERROR>>>>

\* ------------------------------------------------------------------------
\* Wrapper.log.  An event is what one call prints: its level, the place
\* that logged it and the text.  logged is the sequence of events printed
\* so far; nothing is appended when level > log_level.
\* ------------------------------------------------------------------------
Event(n, src, text) == [level |-> n, src |-> src, text |-> text]

\* log with a level given by the program (an int)
LogAt(logged, log_level, text, n, src) ==
    IF n > log_level THEN logged ELSE Append(logged, Event(n, src, text))

\* log with a level taken from a decoded message: exc is the exception
\* raised by the conversion or the comparison ("" for none)
log(logged, log_level, text, level, src) ==
    IF level.t = "str"
    THEN IF DictHas(LEVEL_CONVERTER, lower(level.s))
         THEN [logged |-> LogAt(logged, log_level, text,
                                DictGet(LEVEL_CONVERTER, lower(level.s)), src),
               exc |-> ""]
         ELSE [logged |-> logged, exc |-> "KeyError"]
    ELSE IF level.t = "bool"
    THEN [logged |-> LogAt(logged, log_level, text,
                           IF level.b THEN 1 ELSE 0, src),
          exc |-> ""]
    ELSE [logged |-> logged, exc |-> "TypeError"]

\* ------------------------------------------------------------------------
\* Result attributes of the wrapper set by parse_response
\* ------------------------------------------------------------------------
FieldNames ==
    {"mod_status", "mods", "mod_sync_result", "patched", "import_result",
     "fixed_player_data", "downgraded_manifest"}

\* the attribute does not exist (hasattr is False)
NoAttr == [t |-> "noattr"]

\* the attribute a result kind is stored in
FieldOf(kind) ==
    CASE kind = S_ModStatus -> "mod_status"
      [] kind = S_Mods -> "mods"
      [] kind = S_ModSyncResult -> "mod_sync_result"
      [] kind = S_Patched -> "patched"
      [] kind = S_ImportResult -> "import_result"
      [] kind = S_FixedPlayerData -> "fixed_player_data"
      [] kind = S_DowngradedManifest -> "downgraded_manifest"
      [] OTHER -> "none"

\* the keys a branch of parse_response reads with response[...], in the
\* order it reads them (the values of the list kinds are rendered by the
\* presentation code and are not looked into here)
RequiredKeys(kind) ==
    CASE kind = S_ModStatus -> <<S_installed_mods, S_core_mods, S_app_info>>
      [] kind = S_Mods -> <<S_installed_mods>>
      [] kind = S_ModSyncResult -> <<S_installed_mods, S_failures>>
      [] kind = S_Patched -> <<S_installed_mods, S_did_remove_dlc>>
      [] kind = S_ImportResult -> <<S_result>>
      [] kind = S_FixedPlayerData -> <<S_existed>>
      [] kind = S_DowngradedManifest -> <<S_manifest_xml>>
      [] OTHER -> <<>>

MissingKey(m, keys) == \E i \in 1..Len(keys) : ~DictHas(m, keys[i])

\* the ImportResult branch: the keys read for the import type it
ImportTypeExc(res, it) ==
    IF it = JStr(S_ImportedMod)
         /\ MissingKey(res, <<S_installed_mods, S_imported_id>>)
    THEN "KeyError"
    ELSE IF it = JStr(S_ImportedFileCopy)
              /\ MissingKey(res, <<S_copied_to, S_mod_id>>)
    THEN "KeyError"
    ELSE ""

\* the ImportResult branch: response['result']['type'] of the result res
ImportResultExc(res) ==
    IF res.t = "str" THEN "TypeError"          \* str indices must be int
    ELSE IF res.t # "obj" THEN "TypeError"     \* not subscriptable
    ELSE IF ~DictHas(res.m, S_type) THEN "KeyError"
    ELSE ImportTypeExc(res.m, DictGet(res.m, S_type))

\* ------------------------------------------------------------------------
\* Wrapper.parse_response(response).  self is [fields, logged, log_level];
\* the result is the new fields and logged, and exc, the exception that
\* leaves parse_response ("" for a normal return).
\* ------------------------------------------------------------------------
Raise(self, e) == [fields |-> self.fields, logged |-> self.logged, exc |-> e]

\* the LogMsg branch
LogMsg(self, body) ==
    IF MissingKey(body, <<S_message, S_level>>) THEN Raise(self, "KeyError")
    ELSE [fields |-> self.fields] @@
         log(self.logged, self.log_level, DictGet(body, S_message),
             DictGet(body, S_level), "LogMsg")

\* the last branch: no such response type
NotImplemented(self, response_type, body) ==
    [fields |-> self.fields,
     logged |-> LogAt(LogAt(self.logged, self.log_level, response_type,
                            ERROR, "unimplemented"),
                      self.log_level, JObj(body), DEBUG, "unimplemented"),
     exc |-> ""]

\* the DowngradedManifest branch stores the manifest, not the response
DowngradedManifest(self, body) ==
    IF MissingKey(body, <<S_manifest_xml>>) THEN Raise(self, "KeyError")
    ELSE [fields |-> [self.fields EXCEPT
                        !["downgraded_manifest"] = DictGet(body, S_manifest_xml)],
          logged |-> self.logged, exc |-> ""]

\* the other branches store the response, then read its keys; the lines
\* they print to render the result (the presentation of a result, always
\* at levels the program fixes) are not recorded in logged
Result(self, kind, body) ==
    [fields |-> [self.fields EXCEPT ![FieldOf(kind)] = JObj(body)],
     logged |-> self.logged,
     exc |-> IF MissingKey(body, RequiredKeys(kind)) THEN "KeyError"
             ELSE IF kind = S_ImportResult
             THEN ImportResultExc(DictGet(body, S_result))
             ELSE ""]

\* response_type is response['type'], body the response without it
Typed(self, response_type, body) ==
    IF response_type = JStr(S_LogMsg) THEN LogMsg(self, body)
    ELSE IF response_type.t # "str" THEN
        NotImplemented(self, response_type, body)
    ELSE IF FieldOf(response_type.s) = "none" THEN
        NotImplemented(self, response_type, body)
    ELSE IF response_type.s = S_DowngradedManifest THEN
        DowngradedManifest(self, body)
    ELSE Result(self, response_type.s, body)

parse_response(self, response) ==
    IF response.t # "obj" THEN Raise(self, "TypeError")
    ELSE IF ~DictHas(response.m, S_type) THEN Raise(self, "KeyError")
    ELSE Typed(self, DictGet(response.m, S_type), DictDel(response.m, S_type))

\* ------------------------------------------------------------------------
\* json.dumps(payload).encode('utf8') for the values of the model
\* (default separators ", " and ": "; the model's strings need no escapes
\* except U+00E9, which ensure_ascii writes as an escape and which no
\* request of the model contains)
\* ------------------------------------------------------------------------
RECURSIVE json_dumps(_)
RECURSIVE DumpMembers(_, _)
DumpMembers(m, i) ==
    IF i > Len(m) THEN <<>>
    ELSE (IF i > 1 THEN <<",", " ">> ELSE <<>>)
         \o <<"\"">> \o m[i][1] \o <<"\"", ":", " ">> \o json_dumps(m[i][2])
         \o DumpMembers(m, i + 1)

json_dumps(v) ==
    CASE v.t = "str" -> <<"\"">> \o v.s \o <<"\"">>
      [] v.t = "bool" -> IF v.b THEN <<"t", "r", "u", "e">>
                         ELSE <<"f", "a", "l", "s", "e">>
      [] v.t = "null" -> <<"n", "u", "l", "l">>
      [] v.t = "obj" -> <<"{">> \o DumpMembers(v.m, 1) \o <<"}">>

S_FixPlayerData ==
    <<"F", "i", "x", "P", "l", "a", "y", "e", "r", "D", "a", "t", "a">>

S_ImportUrl ==
    <<"I", "m", "p", "o", "r", "t", "U", "r", "l">>

S_from_url ==
    <<"f", "r", "o", "m", "_", "u", "r", "l">>

\* ------------------------------------------------------------------------
\* What the worker (adb shell /data/local/tmp/mbf-agent) writes
\* ------------------------------------------------------------------------
\* {"type":"LogMsg","message":"é","level":"info"}
LogBytes ==
    <<"{", "\"", "t", "y", "p", "e", "\"", ":", "\"", "L", "o", "g", "M",
      "s", "g", "\"", ",", "\"", "m", "e", "s", "s", "a", "g", "e", "\"",
      ":", "\"", "xC3", "xA9", "\"", ",", "\"", "l", "e", "v", "e", "l",
      "\"", ":", "\"", "i", "n", "f", "o", "\"", "}">>
\* {"type":"FixedPlayerData","existed":true}
TermBytes ==
    <<"{", "\"", "t", "y", "p", "e", "\"", ":", "\"", "F", "i", "x", "e",
      "d", "P", "l", "a", "y", "e", "r", "D", "a", "t", "a", "\"", ",", "\"",
      "e", "x", "i", "s", "t", "e", "d", "\"", ":", "t", "r", "u", "e", "}">>

\* {"type":"P"}
UnknownBytes ==
    <<"{", "\"", "t", "y", "p", "e", "\"", ":", "\"", "P", "\"", "}">>

\* {"existed":true}
NoTypeBytes ==
    <<"{", "\"", "e", "x", "i", "s", "t", "e", "d", "\"", ":", "t", "r", "u",
      "e", "}">>

\* {"type":"ImportResult","result":{"type":"ImportedSong","imported_id":"a"}}
ImportBytes ==
    <<"{", "\"", "t", "y", "p", "e", "\"", ":", "\"", "I", "m", "p", "o",
      "r", "t", "R", "e", "s", "u", "l", "t", "\"", ",", "\"", "r", "e", "s",
      "u", "l", "t", "\"", ":", "{", "\"", "t", "y", "p", "e", "\"", ":",
      "\"", "I", "m", "p", "o", "r", "t", "e", "d", "S", "o", "n", "g", "\"",
      ",", "\"", "i", "m", "p", "o", "r", "t", "e", "d", "_", "i", "d", "\"",
      ":", "\"", "a", "\"", "}", "}">>

\* the decoded forms of the messages
LogMessage == json_loads(decode_utf8(LogBytes).s).val

TermMessage == json_loads(decode_utf8(TermBytes).s).val

UnknownMessage == json_loads(decode_utf8(UnknownBytes).s).val

NoTypeMessage == json_loads(decode_utf8(NoTypeBytes).s).val

ImportMessage == json_loads(decode_utf8(ImportBytes).s).val

\* text on stderr that starts with a complete JSON value and ends with a
\* two-byte character
ErrBytes == <<"{", "}", "xC3", "xA9">>

\* What a worker writes to stdout and to stderr over its life, after which
\* it closes both:
\*   1  a log line, a newline and the result; stderr silent
\*   2  a result, a newline and a second result; stderr silent
\*   3  nothing at all
\*   4  a stray closing brace, a newline and a response; stderr silent
\*   5  a response; text on stderr
\*   6  two responses with nothing between them; stderr silent
\*   7  an object without 'type', a newline and a response; stderr silent
\*   8  the result of an import; stderr silent
Workers ==
    <<[out |-> LogBytes \o <<"\n">> \o TermBytes, err |-> <<>>],
      [out |-> TermBytes \o <<"\n">> \o TermBytes, err |-> <<>>],
      [out |-> <<>>, err |-> <<>>],
      [out |-> <<"}", "\n">> \o UnknownBytes, err |-> <<>>],
      [out |-> UnknownBytes, err |-> ErrBytes],
      [out |-> UnknownBytes \o UnknownBytes, err |-> <<>>],
      [out |-> NoTypeBytes \o <<"\n">> \o UnknownBytes, err |-> <<>>],
      [out |-> ImportBytes, err |-> <<>>]>>

\* the workers that may answer a FixPlayerData request
PlayerDataWorkers == {1, 2, 3, 4, 5, 6, 7}

\* the workers that may answer an ImportUrl request
ImportWorkers == {3, 5, 8}

\* the workers that may answer the request p
WorkersFor(p) ==
    IF DictGet(p.m, S_type) = JStr(S_ImportUrl) THEN ImportWorkers
    ELSE PlayerDataWorkers

\* the number of commands the interactive loop runs
MaxSessions == 2

\* reads of stdout are counted up to this number
MaxCounted == 3

VARIABLES
    pc,               \* where the program is
    sessions,         \* send_payload calls started
    log_level,        \* self.log_level
    fields,           \* result attributes of the wrapper
    enable,           \* args.enable, the ids import_url has collected
    logged,           \* events printed by self.log in this session for
                      \* the payload, log lines, stderr text and unknown
                      \* response types
    payload,          \* the request of this session
    spawned,          \* Popen calls of this session
    stdin,            \* writes made to process.stdin, in order
    streamsOpen,      \* pipe ends of the process the wrapper holds open
    reaped,           \* the process has been waited for
    registered,       \* streams registered with the selector
    worker,           \* index in Workers of the worker of this session
    outPos,           \* bytes of stdout read so far
    errPos,           \* bytes of stderr read so far
    keys,             \* ready streams select() returned, not yet handled
    combined_stdout,  \* the accumulator
    dispatched,       \* arguments of the parse_response calls, in order
    fed,              \* streams whose bytes went into combined_stdout
    outReads,         \* reads of stdout that returned bytes (counted up
                      \* to MaxCounted)
    eofOn,            \* the stream whose read returned no bytes, or "none"
    ret               \* how send_payload ended: Running, the value it
                      \* returned, or Raised(e) for the exception e that
                      \* left it

vars ==
    <<pc, sessions, log_level, fields, enable, logged, payload, spawned, stdin,
      streamsOpen, reaped, registered, worker, outPos, errPos,
      keys, combined_stdout, dispatched, fed, outReads, eofOn, ret>>

historyVars == <<dispatched, fed, outReads, eofOn>>

\* send_payload has not ended
Running == [t |-> "running"]

\* the value of a bare "return"
None == JNull

\* send_payload was left by the exception e
Raised(e) == [t |-> "exc", e |-> e]

wrapperVars == <<log_level, fields, enable>>

processVars == <<spawned, stdin, streamsOpen, reaped, registered>>

workerVars == <<worker>>

\* every ready stream is taken for stdout
IsStdout_AnyStream(key) == key \in {"stdout", "stderr"}

\* "key.fileobj is process.stdout"
IsStdout(key) == key = "stdout"

\* bytes of a stream the wrapper has not read yet
Rest(stream) ==
    IF stream = "stdout" THEN Drop(Workers[worker].out, outPos)
    ELSE Drop(Workers[worker].err, errPos)

\* ------------------------------------------------------------------------
\* The body of "for response in raw_output.splitlines()": st is
\* [combined, fields, logged, dispatched, exc]; the loop stops at the first
\* exception, which is not a JSONDecodeError and so is not caught.
\* ------------------------------------------------------------------------
\* the accumulator is kept after a response was dispatched
Dispatched_NoReset(st, c, val, r) ==
    [combined |-> c,
     fields |-> r.fields,
     logged |-> r.logged,
     dispatched |-> Append(st.dispatched, val),
     exc |-> r.exc]

\* parse_response(val) has ended as r: the accumulator c is reset unless
\* it raised
Dispatched(st, c, val, r) ==
    [combined |-> IF r.exc = "" THEN <<>> ELSE c,
     fields |-> r.fields,
     logged |-> r.logged,
     dispatched |-> Append(st.dispatched, val),
     exc |-> r.exc]

\* on a JSONDecodeError, an accumulator that could not parse before this
\* line either is thrown away
AfterLoads_DropOnRetry(st, c, j, level) ==
    IF ~j.ok
    THEN [st EXCEPT !.combined =
              IF decode_utf8(st.combined).ok
                   /\ Scan(decode_utf8(st.combined).s).st = "bad"
              THEN <<>> ELSE c]
    ELSE Dispatched(st, c, j.val,
                    parse_response([fields |-> st.fields,
                                    logged |-> st.logged,
                                    log_level |-> level], j.val))

\* json.loads has ended as j: JSONDecodeError is passed over
AfterLoads(st, c, j, level) ==
    IF ~j.ok THEN [st EXCEPT !.combined = c]
    ELSE Dispatched(st, c, j.val,
                    parse_response([fields |-> st.fields,
                                    logged |-> st.logged,
                                    log_level |-> level], j.val))

\* combined_stdout.decode('utf8') has ended as d
AfterDecode(st, c, d, level) ==
    IF ~d.ok THEN [st EXCEPT !.combined = c, !.exc = "UnicodeDecodeError"]
    ELSE AfterLoads(st, c, json_loads(d.s), level)

\* combined_stdout += response, then the try statement
TryLine(st, c, level) == AfterDecode(st, c, decode_utf8(c), level)

RECURSIVE HandleLines(_, _, _)
HandleLines(lines, st, level) ==
    IF lines = <<>> \/ st.exc # "" THEN st
    ELSE HandleLines(Tail(lines),
                     TryLine(st, st.combined \o Head(lines), level), level)

\* ------------------------------------------------------------------------
\* Initial state: the wrapper is constructed, no command has run
\* ------------------------------------------------------------------------
Init ==
    /\ pc = "idle"
    /\ sessions = 0
    /\ log_level = INFO
    /\ fields = [f \in FieldNames |-> NoAttr]
    /\ enable = <<>>
    /\ logged = <<>>
    /\ payload = JNull
    /\ spawned = 0
    /\ stdin = <<>>
    /\ streamsOpen = {}
    /\ reaped = FALSE
    /\ registered = {}
    /\ worker = 1
    /\ outPos = 0
    /\ errPos = 0
    /\ keys = <<>>
    /\ combined_stdout = <<>>
    /\ dispatched = <<>>
    /\ fed = {}
    /\ outReads = 0
    /\ eofOn = "none"
    /\ ret = Running

\* fix_player_data -> send_payload('FixPlayerData'): the payload is built
\* and logged at TRACE
Call ==
    /\ pc = "idle"
    /\ sessions < MaxSessions
    /\ sessions' = sessions + 1
    /\ payload' = JObj(<<<<S_type, JStr(S_FixPlayerData)>>>>)
    /\ logged' = LogAt(<<>>, log_level, JStr(json_dumps(payload')), TRACE,
                       "payload")
    /\ spawned' = 0
    /\ dispatched' = <<>>
    /\ fed' = {}
    /\ outReads' = 0
    /\ eofOn' = "none"
    /\ outPos' = 0
    /\ errPos' = 0
    /\ ret' = Running
    /\ pc' = "popen"
    /\ UNCHANGED <<wrapperVars, stdin, streamsOpen, reaped, registered,
                   workerVars, keys, combined_stdout>>

\* subprocess.Popen(..., stdin=PIPE, stdout=PIPE, stderr=PIPE): a worker
\* starts; what it will write is its own choice
Popen ==
    /\ pc = "popen"
    /\ spawned' = spawned + 1
    /\ streamsOpen' = {"stdin", "stdout", "stderr"}
    /\ reaped' = FALSE
    /\ stdin' = <<>>
    /\ worker' \in WorkersFor(payload)
    /\ outPos' = 0
    /\ errPos' = 0
    /\ pc' = "write"
    /\ UNCHANGED <<sessions, wrapperVars, logged, payload, registered, keys,
                   combined_stdout, historyVars, ret>>

\* the request is written twice
WriteStdin_Twice ==
    /\ pc = "write"
    /\ stdin' = Append(Append(stdin, json_dumps(payload)), json_dumps(payload))
    /\ pc' = "close"
    /\ UNCHANGED <<sessions, wrapperVars, logged, payload, spawned,
                   streamsOpen, reaped, registered, workerVars, outPos,
                   errPos, keys, combined_stdout, historyVars, ret>>

\* process.stdin.write(json.dumps(payload).encode('utf8'))
WriteStdin ==
    /\ pc = "write"
    /\ stdin' = Append(stdin, json_dumps(payload))
    /\ pc' = "close"
    /\ UNCHANGED <<sessions, wrapperVars, logged, payload, spawned,
                   streamsOpen, reaped, registered, workerVars, outPos,
                   errPos, keys, combined_stdout, historyVars, ret>>

\* process.stdin.close()
CloseStdin ==
    /\ pc = "close"
    /\ streamsOpen' = streamsOpen \ {"stdin"}
    /\ pc' = "register"
    /\ UNCHANGED <<sessions, wrapperVars, logged, payload, spawned, stdin,
                   reaped, registered, workerVars, outPos, errPos, keys,
                   combined_stdout, historyVars, ret>>

\* the selector is created, both streams are registered, and the
\* accumulator starts empty
Register ==
    /\ pc = "register"
    /\ registered' = {"stdout", "stderr"}
    /\ combined_stdout' = <<>>
    /\ keys' = <<>>
    /\ pc' = "select"
    /\ UNCHANGED <<sessions, wrapperVars, logged, payload, spawned, stdin,
                   streamsOpen, reaped, workerVars, outPos, errPos,
                   historyVars, ret>>

\* selector.select(): blocks until some registered stream is readable (has
\* data or is at end of file); which streams are ready, and in what order
\* they are listed, is up to the worker's timing
ReadyLists ==
    {<<"stdout">>, <<"stderr">>, <<"stdout", "stderr">>,
     <<"stderr", "stdout">>}

Select ==
    /\ pc = "select"
    /\ keys' \in {k \in ReadyLists : \A i \in 1..Len(k) : k[i] \in registered}
    /\ pc' = "for"
    /\ UNCHANGED <<sessions, wrapperVars, logged, payload, processVars,
                   workerVars, outPos, errPos, combined_stdout, historyVars,
                   ret>>

\* read1() took n bytes from the stream of key
Advance(key, n) ==
    IF key = "stdout"
    THEN outPos' = outPos + n /\ errPos' = errPos
    ELSE errPos' = errPos + n /\ outPos' = outPos

\* the stream just read is read again without a new select()
AfterKey_ReadAgain ==
    /\ keys' = keys
    /\ pc' = "for"

\* where the loop goes after a key has been handled
AfterKey ==
    /\ keys' = Tail(keys)
    /\ pc' = IF Tail(keys) = <<>> THEN "select" ELSE "for"

\* read1() returns no bytes: the stream is at end of file, send_payload
\* returns None.  Nothing in send_payload waits for the process or closes
\* a stream; whether the finalizers of the local objects have done so when
\* the caller resumes depends on the interpreter and on whether the worker
\* has exited, so either outcome is possible.
ReadEof ==
    /\ pc = "for"
    /\ Rest(Head(keys)) = <<>>
    /\ eofOn' = Head(keys)
    /\ ret' = None
    /\ pc' = "returned"
    /\ reaped' \in {reaped, TRUE}
    /\ streamsOpen' \in {streamsOpen, {}}
    /\ keys' = <<>>
    /\ UNCHANGED <<sessions, wrapperVars, logged, payload, spawned, stdin,
                   registered, workerVars, outPos, errPos, combined_stdout,
                   dispatched, fed, outReads>>

\* read1() on stdout returns the bytes the worker has written so far, at
\* least one; they are split into lines and each line is added to the
\* accumulator and tried
ReadStdout ==
    /\ pc = "for"
    /\ IsStdout(Head(keys))
    /\ \E n \in 1..Len(Rest(Head(keys))) :
        LET raw_output == Take(Rest(Head(keys)), n)
            st == HandleLines(splitlines(raw_output),
                              [combined |-> combined_stdout,
                               fields |-> fields, logged |-> logged,
                               dispatched |-> dispatched, exc |-> ""],
                              log_level)
        IN  /\ Advance(Head(keys), n)
            /\ combined_stdout' = st.combined
            /\ fields' = st.fields
            /\ logged' = st.logged
            /\ dispatched' = st.dispatched
            /\ fed' = fed \cup {Head(keys)}
            /\ outReads' = IF outReads < MaxCounted THEN outReads + 1
                           ELSE outReads
            /\ IF st.exc # ""
               THEN /\ ret' = Raised(st.exc)
                    /\ pc' = "raised"
                    /\ keys' = <<>>
               ELSE /\ ret' = ret
                    /\ AfterKey
    /\ UNCHANGED <<sessions, log_level, enable, payload, processVars,
                   workerVars, eofOn>>

\* read1() on stderr returns bytes: they are decoded and logged at ERROR
ReadStderr ==
    /\ pc = "for"
    /\ ~IsStdout(Head(keys))
    /\ \E n \in 1..Len(Rest(Head(keys))) :
        LET raw_output == Take(Rest(Head(keys)), n)
            d == decode_utf8(raw_output)
        IN  /\ Advance(Head(keys), n)
            /\ IF ~d.ok
               THEN /\ ret' = Raised("UnicodeDecodeError")
                    /\ pc' = "raised"
                    /\ keys' = <<>>
                    /\ logged' = logged
               ELSE /\ ret' = ret
                    /\ logged' = LogAt(logged, log_level, JStr(d.s), ERROR,
                                       "stderr")
                    /\ AfterKey
    /\ UNCHANGED <<sessions, wrapperVars, payload, processVars, workerVars,
                   combined_stdout, historyVars>>

\* send_payload has returned: its locals are gone, the command is over and
\* the interactive loop reads the next one
Finish ==
    /\ pc = "returned"
    /\ pc' = "idle"
    /\ combined_stdout' = <<>>
    /\ registered' = {}
    /\ UNCHANGED <<sessions, wrapperVars, logged, payload, spawned, stdin,
                   streamsOpen, reaped, workerVars, outPos, errPos, keys,
                   historyVars, ret>>

Next ==
    \/ Call
    \/ Popen
    \/ WriteStdin
    \/ CloseStdin
    \/ Register
    \/ Select
    \/ ReadEof
    \/ ReadStdout
    \/ ReadStderr
    \/ Finish

Spec == Init /\ [][Next]_vars

\* ------------------------------------------------------------------------
\* The command import_url with MaxSessions urls: for each url a session,
\* then the caller reads self.import_result
\* ------------------------------------------------------------------------
\* the result is cleared when a session starts
CallImport_ClearsResult ==
    /\ pc = "idle"
    /\ sessions < MaxSessions
    /\ sessions' = sessions + 1
    /\ payload' = JObj(<<<<S_type, JStr(S_ImportUrl)>>,
                         <<S_from_url, JStr(<<"u">>)>>>>)
    /\ logged' = LogAt(<<>>, log_level, JStr(json_dumps(payload')), TRACE,
                       "payload")
    /\ fields' = [fields EXCEPT !["import_result"] = NoAttr]
    /\ spawned' = 0
    /\ dispatched' = <<>>
    /\ fed' = {}
    /\ outReads' = 0
    /\ eofOn' = "none"
    /\ outPos' = 0
    /\ errPos' = 0
    /\ ret' = Running
    /\ pc' = "popen"
    /\ UNCHANGED <<log_level, enable, stdin, streamsOpen, reaped, registered,
                   workerVars, keys, combined_stdout>>

\* self.send_payload('ImportUrl', from_url=url): the payload is built and
\* logged at TRACE
CallImport ==
    /\ pc = "idle"
    /\ sessions < MaxSessions
    /\ sessions' = sessions + 1
    /\ payload' = JObj(<<<<S_type, JStr(S_ImportUrl)>>,
                         <<S_from_url, JStr(<<"u">>)>>>>)
    /\ logged' = LogAt(<<>>, log_level, JStr(json_dumps(payload')), TRACE,
                       "payload")
    /\ spawned' = 0
    /\ dispatched' = <<>>
    /\ fed' = {}
    /\ outReads' = 0
    /\ eofOn' = "none"
    /\ outPos' = 0
    /\ errPos' = 0
    /\ ret' = Running
    /\ pc' = "popen"
    /\ UNCHANGED <<wrapperVars, stdin, streamsOpen, reaped, registered,
                   workerVars, keys, combined_stdout>>

\* self.import_result['result'] as the caller reads it: the attribute may
\* not exist
HasImportedId(result) == DictHas(result.m, S_imported_id)

\* send_payload has returned to import_url, which reads
\* self.import_result['result'] and, when it holds 'imported_id', adds the
\* id to args.enable; then the loop takes the next url
AfterImport ==
    /\ pc = "returned"
    /\ combined_stdout' = <<>>
    /\ registered' = {}
    /\ IF fields["import_result"] = NoAttr
       THEN /\ pc' = "raised"
            /\ ret' = Raised("AttributeError")
            /\ enable' = enable
       ELSE /\ pc' = "idle"
            /\ ret' = ret
            /\ enable' =
                 IF HasImportedId(DictGet(fields["import_result"].m, S_result))
                 THEN Append(enable,
                             DictGet(DictGet(fields["import_result"].m,
                                             S_result).m, S_imported_id))
                 ELSE enable
    /\ UNCHANGED <<sessions, log_level, fields, logged, payload, spawned,
                   stdin, streamsOpen, reaped, workerVars, outPos, errPos,
                   keys, historyVars>>

NextImport ==
    \/ CallImport
    \/ Popen
    \/ WriteStdin
    \/ CloseStdin
    \/ Register
    \/ Select
    \/ ReadEof
    \/ ReadStdout
    \/ ReadStderr
    \/ AfterImport

SpecImport == Init /\ [][NextImport]_vars

\* ========================================================================
\* Properties
\* ========================================================================
\* a response that carries a result: every response but a log line
IsTerminal(v) ==
    /\ v.t = "obj"
    /\ DictHas(v.m, S_type)
    /\ DictGet(v.m, S_type) # JStr(S_LogMsg)

Terminals(d) == SelectSeq(d, IsTerminal)

\* the payload of a response: the response without its discriminator
PayloadOf(v) == JObj(DictDel(v.m, S_type))

\* the errors a session may end with according to the specification
SessionErrors == {"MalformedMessage", "UnexpectedClosure",
                  "ProcessSpawnFailure"}

Ended == pc \in {"returned", "raised"}

ReturnsPayload == pc = "returned" /\ ret.t = "obj"

EndsWithSessionError ==
    pc = "raised" /\ ret.t = "exc" /\ ret.e \in SessionErrors

\* C1: when send_payload has ended it has ended in exactly one of two ways:
\* it returned a terminal payload, or it failed with a SessionError
C1_PayloadOrSessionError ==
    Ended => (ReturnsPayload # EndsWithSessionError)

\* C2: when a read of stdout has returned no bytes and no terminal message
\* was decoded in the session, send_payload ends with UnexpectedClosure
C2_UnexpectedClosure ==
    (eofOn = "stdout" /\ Terminals(dispatched) = <<>>)
        => (pc = "raised" /\ ret = Raised("UnexpectedClosure"))

\* C3: once a terminal message has been dispatched the read loop is over
\* (no select, no read) and that message is the only terminal message and
\* the last message dispatched in the session
C3_TerminalEndsSession ==
    Terminals(dispatched) # <<>>
        => /\ pc \notin {"select", "for"}
           /\ Len(Terminals(dispatched)) = 1
           /\ IsTerminal(dispatched[Len(dispatched)])

\* the decoder was fed at most two chunks, all of them from the bytes of
\* the first message of worker 1
WithinLogMessage ==
    /\ worker = 1
    /\ outReads \in {1, 2}
    /\ outPos <= Len(LogBytes)

\* C4: a message fed to the decoder in one chunk or cut in two at any byte
\* yields the decoded message, exactly once: no piece raises, nothing is
\* dispatched before the last byte, and with the last byte the message is
\* dispatched and the accumulator is empty again
C4_SplitAnywhere ==
    WithinLogMessage
        => /\ ret.t # "exc"
           /\ outPos < Len(LogBytes) => dispatched = <<>>
           /\ outPos = Len(LogBytes)
                  => dispatched = <<LogMessage>> /\ combined_stdout = <<>>

\* the first chunk ended between the two bytes of a character
C4_CutInsideCharacter ==
    /\ WithinLogMessage
    /\ outReads = 1
    /\ LogBytes[outPos] \in Lead2
    /\ ret = Raised("UnicodeDecodeError")

\* no continuation of the bytes b is one JSON value: the text decodes and
\* the scanner met a character that cannot stand where it stands
Hopeless(b) ==
    /\ decode_utf8(b).ok
    /\ Scan(decode_utf8(b).s).st = "bad"

\* C5: when the accumulator holds bytes that can never become a message
\* the session has failed with MalformedMessage
C5_MalformedMessage ==
    Hopeless(combined_stdout)
        => (pc = "raised" /\ ret = Raised("MalformedMessage"))

\* the loop goes on with hopeless bytes in the accumulator
C5_KeptAndRetried ==
    /\ Hopeless(combined_stdout)
    /\ pc = "select"
    /\ outPos = Len(Workers[worker].out)
    /\ dispatched = <<>>

IsPrefix(a, b) == Len(a) <= Len(b) /\ a = SubSeq(b, 1, Len(a))

IsSuffix(a, b) ==
    Len(a) <= Len(b) /\ a = SubSeq(b, Len(b) - Len(a) + 1, Len(b))

\* a occurs in b as a run of consecutive elements
IsInfix(a, b) ==
    \E i \in 0..(Len(b) - Len(a)) : a = SubSeq(b, i + 1, i + Len(a))

\* the bytes b without the line boundaries splitlines removes
StripBreaks(b) == SelectSeq(b, LAMBDA c : c \notin LineEnds)

\* what the complete JSON value at the head of ErrBytes would decode to
ErrValue == json_loads(<<"{", "}">>).val

\* C6: bytes of stderr never reach the accumulator, json.loads or
\* parse_response: only stdout chunks are fed to the accumulator, the
\* accumulator is always a run of the stdout bytes read so far (line
\* boundaries removed), and the value the stderr text spells is never
\* dispatched
C6_StderrNeverParsed ==
    /\ fed \subseteq {"stdout"}
    /\ IsInfix(combined_stdout,
               StripBreaks(Take(Workers[worker].out, outPos)))
    /\ \A i \in 1..Len(dispatched) : dispatched[i] # ErrValue

\* the JSON text on stderr has been read and logged while part of a
\* response is waiting in the accumulator
C6_StderrBetweenChunks ==
    /\ worker = 5
    /\ combined_stdout # <<>>
    /\ combined_stdout = Take(UnknownBytes, outPos)
    /\ logged = <<Event(ERROR, "stderr", JStr(<<"{", "}">>))>>
    /\ dispatched = <<>>

\* the responses each worker writes to stdout, in the order of their bytes
Written ==
    <<<<LogMessage, TermMessage>>,
      <<TermMessage, TermMessage>>,
      <<>>,
      <<UnknownMessage>>,
      <<UnknownMessage>>,
      <<UnknownMessage, UnknownMessage>>,
      <<NoTypeMessage, UnknownMessage>>,
      <<ImportMessage>>>>

\* the position in the worker's stdout of the last byte of each of them
WrittenEnds ==
    <<<<Len(LogBytes), Len(LogBytes) + 1 + Len(TermBytes)>>,
      <<Len(TermBytes), Len(TermBytes) + 1 + Len(TermBytes)>>,
      <<>>,
      <<2 + Len(UnknownBytes)>>,
      <<Len(UnknownBytes)>>,
      <<Len(UnknownBytes), 2 * Len(UnknownBytes)>>,
      <<Len(NoTypeBytes), Len(NoTypeBytes) + 1 + Len(UnknownBytes)>>,
      <<Len(ImportBytes)>>>>

\* workers whose stdout holds nothing but responses with a type, one per
\* line
WellFormed == {1, 2, 3, 5, 8}

\* the number of responses of worker w complete within its first n bytes
Completed(w, n) ==
    Cardinality({i \in 1..Len(WrittenEnds[w]) : WrittenEnds[w][i] <= n})

\* C7: the parse_response calls made so far are the responses written to
\* stdout, each once and in the order of their bytes; and for a worker
\* that writes only responses, every response whose last byte has been
\* read has been dispatched: at every point of the loop and therefore when
\* send_payload returns
C7_DispatchedOnceInOrder ==
    /\ IsPrefix(dispatched, Written[worker])
    /\ worker \in WellFormed
           => Len(dispatched) = Completed(worker, outPos)

\* both responses of worker 1 arrived in three or more chunks and were
\* dispatched in order before send_payload returned
C7_BothDispatchedBeforeReturn ==
    /\ worker = 1
    /\ pc = "returned"
    /\ outReads = 3
    /\ dispatched = <<LogMessage, TermMessage>>

\* worker 1's bytes arrived in two reads and the session has ended, or the
\* first of the two reads ended it
TwoReadsOfLogAndResult ==
    /\ worker = 1
    /\ \/ pc = "returned" /\ outReads = 2
              /\ outPos = Len(Workers[worker].out)
       \/ pc = "raised" /\ outReads = 1

\* C8: a log line, a newline and a result cut anywhere into two reads:
\* parse_response is called once for the log line and send_payload
\* returns the payload of the result
C8_LogThenResult ==
    TwoReadsOfLogAndResult
        => /\ Len(SelectSeq(dispatched, LAMBDA v : v = LogMessage)) = 1
           /\ pc = "returned"
           /\ ret = PayloadOf(TermMessage)

\* both messages were dispatched and None came back
C8_ReturnsNone ==
    /\ TwoReadsOfLogAndResult
    /\ dispatched = <<LogMessage, TermMessage>>
    /\ ret = None

\* C9: send_payload returns only after a terminal message or after stdout
\* was read to its end with every response written to it dispatched; in
\* particular end of file on stderr does not end the session while stdout
\* has bytes to read
C9_RunsUntilResultOrClosure ==
    (pc = "returned" /\ worker \in WellFormed)
        => \/ Terminals(dispatched) # <<>>
           \/ /\ Rest("stdout") = <<>>
              /\ dispatched = Written[worker]

\* end of file on stderr ended the session with a whole response unread
C9_StderrClosureEndsSession ==
    /\ pc = "returned"
    /\ eofOn = "stderr"
    /\ worker = 1
    /\ outPos = 0
    /\ dispatched = <<>>

\* C10: when send_payload has ended, by return or by exception, the worker
\* has been waited for and stdout and stderr are closed
C10_ReapedAndReleased ==
    Ended => (reaped /\ streamsOpen = {})

\* an exception left send_payload with the worker not waited for and both
\* streams open
C10_LeakOnException ==
    /\ pc = "raised"
    /\ ~reaped
    /\ streamsOpen = {"stdout", "stderr"}

InLoopOrAfter == pc \in {"select", "for", "returned", "raised"}

\* C11: in every session the worker is spawned once, the serialized
\* request is written once to its stdin while stdin is open, stdin is then
\* closed, and only then the read loop starts; from then on there is still
\* exactly one worker and exactly that one write
C11_SpawnWriteCloseThenRead ==
    /\ pc = "write" => (spawned = 1 /\ stdin = <<>>
                        /\ "stdin" \in streamsOpen)
    /\ pc = "close" => (spawned = 1 /\ stdin = <<json_dumps(payload)>>
                        /\ "stdin" \in streamsOpen)
    /\ pc = "register" => (spawned = 1 /\ stdin = <<json_dumps(payload)>>
                           /\ "stdin" \notin streamsOpen /\ outReads = 0)
    /\ InLoopOrAfter => (spawned = 1 /\ stdin = <<json_dumps(payload)>>
                         /\ "stdin" \notin streamsOpen)

\* the loop has read both streams of worker 5 and the one write is all the
\* worker was ever sent
C11_OneWriteAfterReads ==
    /\ pc = "select"
    /\ worker = 5
    /\ outPos > 0
    /\ errPos > 0
    /\ spawned = 1
    /\ stdin = <<json_dumps(payload)>>

\* the chunk a read of stderr has just taken, in a step
StderrChunk == SubSeq(Workers[worker].err, errPos + 1, errPos')

\* C12: every read of stderr that returns bytes logs exactly those bytes,
\* decoded, as one ERROR event, leaves the accumulator as it was, and the
\* loop goes on
C12_StderrSurfaced ==
    [][(pc = "for" /\ errPos' > errPos)
         => /\ pc' \in {"select", "for"}
            /\ combined_stdout' = combined_stdout
            /\ logged' = Append(logged,
                                Event(ERROR, "stderr",
                                      JStr(decode_utf8(StderrChunk).s)))]_vars

\* a stderr chunk that ended between the two bytes of a character ended
\* the session before anything was read from stdout
C12_StderrChunkAborts ==
    /\ pc = "raised"
    /\ ret = Raised("UnicodeDecodeError")
    /\ outPos = 0
    /\ errPos > 0
    /\ Workers[worker].err[errPos] \in Lead2

\* the chunk a read of stdout has just taken, in a step
StdoutChunk == SubSeq(Workers[worker].out, outPos + 1, outPos')

\* a step that read bytes from stdout without leaving send_payload
StdoutRead == pc = "for" /\ outPos' > outPos /\ pc' # "raised"

BackToBackChunk ==
    /\ worker = 6
    /\ outReads = 1
    /\ outPos = Len(Workers[worker].out)

\* C14: a chunk that holds two complete responses with no separator has
\* both decoded and dispatched, in order, and nothing is left over
C14_BackToBack ==
    BackToBackChunk
        => /\ dispatched = <<UnknownMessage, UnknownMessage>>
           /\ combined_stdout = <<>>

\* neither response was dispatched; both sit in the accumulator
C14_NeitherDispatched ==
    /\ BackToBackChunk
    /\ dispatched = <<>>
    /\ combined_stdout = UnknownBytes \o UnknownBytes
    /\ pc \in {"select", "for"}

\* C15: a failure inside parse_response does not end the session: after
\* the object without 'type' was dispatched send_payload is not left by an
\* exception, and once the response after it has been read it has been
\* dispatched too
C15_DispatchFailureTolerated ==
    (worker = 7 /\ outPos >= Len(NoTypeBytes))
        => /\ pc # "raised"
           /\ outPos = Len(Workers[worker].out)
                  => dispatched = <<NoTypeMessage, UnknownMessage>>

\* the KeyError of response['type'] left send_payload with the later
\* response read but not dispatched
C15_KeyErrorAborts ==
    /\ worker = 7
    /\ pc = "raised"
    /\ ret = Raised("KeyError")
    /\ outPos = Len(Workers[worker].out)
    /\ dispatched = <<NoTypeMessage>>

\* the responses whose last byte a read of stdout has just taken, in a step
JustCompleted ==
    SubSeq(Written[worker], Completed(worker, outPos) + 1,
           Completed(worker, outPos'))

\* C16: a response is dispatched in the handling of the chunk that holds
\* its last byte, before the next select or read, whether or not a newline
\* or anything else has arrived after it
C16_DispatchedWithCompletingChunk ==
    [][(StdoutRead /\ JustCompleted # <<>>)
         => dispatched' = dispatched \o JustCompleted]_vars

\* the first chunk held the whole first response of worker 6 and one byte
\* more; the loop went on without dispatching it
C16_CompleteButNotDispatched ==
    /\ worker = 6
    /\ outReads = 1
    /\ outPos = Len(UnknownBytes) + 1
    /\ pc \in {"select", "for"}
    /\ dispatched = <<>>

\* a step in which read1() was called on a stream
IsRead ==
    \/ outPos' > outPos
    \/ errPos' > errPos
    \/ eofOn' # eofOn /\ eofOn' # "none"

\* the stream it was called on
StreamRead ==
    IF outPos' > outPos THEN "stdout"
    ELSE IF errPos' > errPos THEN "stderr"
    ELSE eofOn'

\* C17: select() is called only when every stream the last call reported
\* has been handled; a read is made only in the for loop, on the first
\* stream of what select() reported and has not been handled yet, and that
\* stream is not read again before the next select()
C17_ReadsOnlyReadyStreams ==
    [][/\ pc = "select" => keys = <<>>
       /\ (pc = "for" /\ pc' = "select") => Tail(keys) = <<>>
       /\ IsRead
            => /\ pc = "for"
               /\ keys # <<>>
               /\ StreamRead = Head(keys)
               /\ \A i \in 1..Len(keys') : keys'[i] # StreamRead
               /\ pc' = "for" => keys' = Tail(keys)]_vars

\* one select() reported stderr and then stdout; stderr has been read and
\* stdout is next
C17_SecondReadyStream ==
    /\ pc = "for"
    /\ worker = 5
    /\ keys = <<"stdout">>
    /\ errPos = Len(ErrBytes)
    /\ outPos = 0
    /\ Len(logged) = 1

\* C18: while the loop runs with an accumulator that no continuation makes
\* a JSON value, no step dispatches anything or takes a byte out of the
\* accumulator: it only keeps its bytes and gains the ones read later
C18_PoisonedAccumulator ==
    [][(pc \in {"select", "for"} /\ Hopeless(combined_stdout))
         => /\ dispatched' = dispatched
            /\ IsPrefix(combined_stdout, combined_stdout')]_vars

\* worker 4 wrote a whole response after the stray brace; stdout was read
\* to its end in two or more reads and nothing was ever dispatched
C18_ResponseAfterGarbageLost ==
    /\ worker = 4
    /\ pc = "returned"
    /\ eofOn = "stdout"
    /\ outReads >= 2
    /\ combined_stdout = <<"}">> \o UnknownBytes
    /\ dispatched = <<>>

\* parse_response stores the response v in the attribute f
Stores(v, f) ==
    /\ IsTerminal(v)
    /\ DictGet(v.m, S_type).t = "str"
    /\ FieldOf(DictGet(v.m, S_type).s) = f

\* C19: a result attribute of the wrapper changes only in a step that
\* dispatches a response of its kind; and when send_payload returns from a
\* session that dispatched no result while import_result still holds the
\* result of an earlier session, import_url goes on and adds the id that
\* earlier session gave once more to args.enable
C19_StaleResultRead ==
    [][/\ \A f \in FieldNames :
            fields'[f] # fields[f]
                => \E i \in (Len(dispatched) + 1)..Len(dispatched') :
                       Stores(dispatched'[i], f)
       /\ (pc = "returned" /\ Terminals(dispatched) = <<>>
             /\ fields["import_result"] # NoAttr)
            => /\ pc' = "idle"
               /\ enable # <<>>
               /\ enable' = Append(enable, enable[Len(enable)])]_vars

\* the second url's worker wrote nothing, and args.enable holds the id of
\* the first url's result twice
C19_IdTakenTwice ==
    /\ sessions = 2
    /\ pc = "idle"
    /\ worker = 3
    /\ dispatched = <<>>
    /\ fields["import_result"] = PayloadOf(ImportMessage)
    /\ enable = <<JStr(<<"a">>), JStr(<<"a">>)>>

====
